---------------------------- MODULE Spec2Model ----------------------------
(***************************************************************************)
(* Model of the Enterprise Integration Hub.                                *)
(*                                                                         *)
(*   src/src/dashboard.py  IntegrationDashboard: the in-memory store       *)
(*                         (integration_metrics, workflow_executions,      *)
(*                         system_events), the webhook endpoint and the    *)
(*                         read endpoints.                                 *)
(*   src/src/main.py       EnterpriseIntegrationHub: the integrations      *)
(*                         registry filled by initialize() and read by     *)
(*                         get_system_status().                            *)
(*                                                                         *)
(* The two files are two programs (each has its own main()); a behaviour   *)
(* of Spec is a run of one of them, chosen by Init.                        *)
(*                                                                         *)
(* dashboard.py line 534 closes the dict literal opened on line 528 with   *)
(* "]" instead of "}", so the file as shipped does not compile.  The model *)
(* reads that token as "}", the only reading under which handle_webhook    *)
(* (and the module) exists at all.                                         *)
(***************************************************************************)
EXTENDS Integers, Sequences, FiniteSets, TLC

VARIABLES
    program,              \* which program this behaviour runs: "dashboard" or "hub"
    scenario,             \* the run of calls the dashboard's caller has still to open with
    dpc,                  \* dashboard: where main() is: "constructed", "seeded", "serving",
                          \* "failed", "interrupted", "exited"; "off" in the hub
    integration_metrics,  \* dashboard.integration_metrics: service -> IntegrationMetric
    workflow_executions,  \* dashboard.workflow_executions
    system_events,        \* dashboard.system_events
    clock,                \* datetime.now(timezone.utc), as a logical clock
    resp,                 \* the answer to the last HTTP request of the dashboard
    ops,                  \* number of store-changing calls made after the opening run
    hist,                 \* ghost: every event ever appended to system_events, in order
    origin,               \* ghost: for each entry of hist, the operation that appended it
    whist,                \* ghost: every execution ever passed to add_workflow_execution
    env,                  \* hub: which environment variables are set (os.getenv)
    hpc,                  \* hub: where main() is: "new", the next step of initialize(),
                          \* "running", "failed", "interrupted", "exited"; "off" in the dashboard
    integrations,         \* hub.integrations: service key -> IntegrationStatus
    session,              \* self.session of the running program: "none", "open" or "closed"
    cycles,               \* iterations of main()'s while loop completed so far
    inflight,             \* dashboard: for each body, the number of webhook handlers
                          \* suspended in "await request.json()" on it
    collab,               \* the collaborators' condition during the hub's latest loop iteration
    answered,             \* ghost: what each service's own check was answered in initialize()
    session_answer,       \* ghost: how the POST /api/sessions made for each service in
                          \* initialize() ended, "none" when none was made
    polled,               \* ghost: what the outbound calls of the last GET /api/status were
                          \* answered, "none" while the dashboard has made no outbound call
    hung,                 \* the collaborators that accept a request and never answer it
    faulted               \* ghost: some request of the dashboard has been answered 500

dashboard_vars == <<scenario, dpc, integration_metrics, workflow_executions,
                    system_events, ops, hist, origin, whist>>
hub_vars == <<env, hpc, integrations>>
run_vars == <<session, cycles, inflight, collab, answered, session_answer, polled, hung, faulted>>

vars == <<program, scenario, dpc, integration_metrics, workflow_executions,
          system_events, clock, resp, ops, hist, origin, whist,
          env, hpc, integrations,
          session, cycles, inflight, collab, answered, session_answer, polled, hung, faulted>>

-----------------------------------------------------------------------------
(* Bounds of the model *)

\* store-changing calls explored exhaustively after the opening run
MaxOps == 2

\* webhook handlers suspended in "await request.json()" at the same time
MaxInFlight == 2

\* iterations of main()'s while loop
MaxCycles == 2

(* Program constants *)

\* dashboard.py:537-538 and 594-595: system_events keeps the last 500
MAX_EVENTS == 500
\* dashboard.py:602-603: workflow_executions keeps the last 1000
MAX_EXECUTIONS == 1000
\* dashboard.py:499: GET /api/workflows serves the last 50
WORKFLOWS_LIMIT == 50
\* dashboard.py:514: GET /api/events serves the last 100
EVENTS_LIMIT == 100

-----------------------------------------------------------------------------
(* Python values *)

\* A JSON / Python value: its kind and, for a dict, its items as <<key, value>> pairs.
PyNone     == [kind |-> "null",   fields |-> {}]
EmptyDict  == [kind |-> "object", fields |-> {}]
Dict(items) == [kind |-> "object", fields |-> items]

\* Python truthiness of such a value (None and {} are falsy).
Truthy(v) == v.kind = "object" /\ v.fields # {}

\* dict.get(key, default)
dict_get(d, key, default) ==
    IF \E p \in d.fields : p[1] = key
    THEN (CHOOSE p \in d.fields : p[1] = key)[2]
    ELSE default

\* datetime.isoformat(): a string made from the instant, never the instant itself
isoformat(t) == <<"iso8601", t>>

\* Python s[-n:] for n > 0
SliceLast(s, n) ==
    IF Len(s) <= n THEN s ELSE SubSeq(s, Len(s) - n + 1, Len(s))

-----------------------------------------------------------------------------
(* The store: dashboard.py 584-614 *)

\* the dict literal built by add_system_event (586-591)
system_event(event_type, message, data, now) ==
    [type      |-> event_type,
     message   |-> message,
     timestamp |-> isoformat(now),
     data      |-> IF Truthy(data) THEN data ELSE EmptyDict]

\* add_system_event with the slice taken from the wrong end: the newest is dropped
add_system_event_keep_oldest(se, event_type, message, data, now) ==
    LET appended == Append(se, system_event(event_type, message, data, now))
    IN  IF Len(appended) > MAX_EVENTS
        THEN SubSeq(appended, 1, MAX_EVENTS)
        ELSE appended

\* add_system_event (584-595): append, then keep the last 500
add_system_event(se, event_type, message, data, now) ==
    LET appended == Append(se, system_event(event_type, message, data, now))
    IN  IF Len(appended) > MAX_EVENTS
        THEN SliceLast(appended, MAX_EVENTS)
        ELSE appended

\* the event add_workflow_execution describes the execution with (606-614)
workflow_event(execution, now) ==
    system_event("workflow_execution",
                 <<"Workflow", execution.workflow_name,
                   "ejecutado con estado", execution.status>>,
                 Dict({<<"workflow_id", execution.workflow_id>>,
                       <<"duration", execution.duration>>,
                       <<"status", execution.status>>}),
                 now)

\* add_workflow_execution with the cap tested before the append, so that the
\* list is cut to 1000 and then grows to 1001
add_workflow_execution_trim_first(we, se, execution, now) ==
    [we |-> Append(IF Len(we) > MAX_EXECUTIONS THEN SliceLast(we, MAX_EXECUTIONS) ELSE we,
                   execution),
     se |-> add_system_event(se, "workflow_execution",
                <<"Workflow", execution.workflow_name,
                  "ejecutado con estado", execution.status>>,
                Dict({<<"workflow_id", execution.workflow_id>>,
                      <<"duration", execution.duration>>,
                      <<"status", execution.status>>}),
                now)]

\* add_workflow_execution that describes the execution without its status
add_workflow_execution_no_status(we, se, execution, now) ==
    LET appended == Append(we, execution)
    IN  [we |-> IF Len(appended) > MAX_EXECUTIONS
                THEN SliceLast(appended, MAX_EXECUTIONS)
                ELSE appended,
         se |-> add_system_event(se, "workflow_execution",
                    <<"Workflow", execution.workflow_name,
                      "ejecutado con estado", execution.status>>,
                    Dict({<<"workflow_id", execution.workflow_id>>,
                          <<"duration", execution.duration>>}),
                    now)]

\* add_workflow_execution (597-614): append, keep the last 1000, record the event
add_workflow_execution(we, se, execution, now) ==
    LET appended == Append(we, execution)
    IN  [we |-> IF Len(appended) > MAX_EXECUTIONS
                THEN SliceLast(appended, MAX_EXECUTIONS)
                ELSE appended,
         se |-> add_system_event(se, "workflow_execution",
                    <<"Workflow", execution.workflow_name,
                      "ejecutado con estado", execution.status>>,
                    Dict({<<"workflow_id", execution.workflow_id>>,
                          <<"duration", execution.duration>>,
                          <<"status", execution.status>>}),
                    now)]


-----------------------------------------------------------------------------
(* The HTTP handlers: dashboard.py 452-550 *)

\* web.json_response(body, status=status), tagged with the request it answers
Response(op, request, status, body) ==
    [op |-> op, request |-> request, status |-> status, body |-> body]

\* no HTTP request was answered by the step
NoResponse == Response("none", PyNone, 0, PyNone)

\* webhook_event reading the type with data["type"]-like semantics and no default
webhook_event_no_default(data, now) ==
    LET webhook_type == dict_get(data, "type", "None")
    IN  [type      |-> "webhook_received",
         source    |-> webhook_type,
         message   |-> <<"Webhook recibido de", webhook_type>>,
         timestamp |-> isoformat(now),
         data      |-> data]

\* the dict literal handle_webhook appends (528-534)
webhook_event(data, now) ==
    LET webhook_type == dict_get(data, "type", "unknown")
    IN  [type      |-> "webhook_received",
         source    |-> webhook_type,
         message   |-> <<"Webhook recibido de", webhook_type>>,
         timestamp |-> isoformat(now),
         data      |-> data]

\* handle_webhook that records the rejected request as an event of its own
handle_webhook_logs_failure(se, body, now) ==
    IF body.kind # "object"
    THEN [se |-> add_system_event(se, "webhook_error", "msg", PyNone, now),
          response |-> Response("webhook", body, 500, Dict({<<"error", "Exception">>}))]
    ELSE LET appended == Append(se, webhook_event(body, now))
         IN  [se |-> IF Len(appended) > MAX_EVENTS
                     THEN SliceLast(appended, MAX_EVENTS)
                     ELSE appended,
              response |-> Response("webhook", body, 200, Dict({<<"success", "true">>}))]

\* handle_webhook (519-543).  request.json() raises on a body that is not JSON;
\* data.get raises AttributeError on a JSON value that is not an object; both
\* land in the except clause, which answers 500.
handle_webhook(se, body, now) ==
    IF body.kind = "unparsable"
    THEN [se |-> se,
          response |-> Response("webhook", body, 500, Dict({<<"error", "JSONDecodeError">>}))]
    ELSE IF body.kind # "object"
    THEN [se |-> se,
          response |-> Response("webhook", body, 500, Dict({<<"error", "AttributeError">>}))]
    ELSE LET appended == Append(se, webhook_event(body, now))
         IN  [se |-> IF Len(appended) > MAX_EVENTS
                     THEN SliceLast(appended, MAX_EVENTS)
                     ELSE appended,
              response |-> Response("webhook", body, 200, Dict({<<"success", "true">>}))]

\* A dict that json.dumps rejects with TypeError: its member "at" holds a
\* datetime object.  Parsed JSON (a webhook body) never is one.
NotJson == Dict({<<"at", "datetime">>})

Serialisable(d) == ~(\E p \in d.fields : p[1] = "at")

\* {**asdict(execution), "start_time": ..., "end_time": ...} (500-504)
execution_json(execution) ==
    [execution EXCEPT !.start_time = isoformat(execution.start_time),
                      !.end_time   = isoformat(execution.end_time)]

\* get_workflow_executions serving the first 50 instead of the last 50
get_workflow_executions_oldest(we) ==
    LET first == SubSeq(we, 1, IF Len(we) < WORKFLOWS_LIMIT THEN Len(we) ELSE WORKFLOWS_LIMIT)
    IN  Response("workflows", PyNone, 200,
                 [i \in 1..Len(first) |-> execution_json(first[i])])

\* get_workflow_executions (495-509)
get_workflow_executions(we) ==
    LET last == SliceLast(we, WORKFLOWS_LIMIT)
    IN  IF \A i \in 1..Len(last) :
              Serialisable(last[i].input_data) /\ Serialisable(last[i].output_data)
        THEN Response("workflows", PyNone, 200,
                      [i \in 1..Len(last) |-> execution_json(last[i])])
        ELSE Response("workflows", PyNone, 500, Dict({<<"error", "TypeError">>}))

\* get_system_events serving the first 100 instead of the last 100
get_system_events_oldest(se) ==
    Response("events", PyNone, 200,
             SubSeq(se, 1, IF Len(se) < EVENTS_LIMIT THEN Len(se) ELSE EVENTS_LIMIT))

\* get_system_events (511-517)
get_system_events(se) ==
    LET last == SliceLast(se, EVENTS_LIMIT)
    IN  IF \A i \in 1..Len(last) : Serialisable(last[i].data)
        THEN Response("events", PyNone, 200, last)
        ELSE Response("events", PyNone, 500, Dict({<<"error", "TypeError">>}))

\* _get_scs_status (552-564): the health document of the Shared Context Server,
\* or an error document when the call fails or is not answered with 200
get_scs_status(outcome) ==
    IF outcome = "ok"
    THEN Dict({<<"status", "healthy">>})
    ELSE Dict({<<"status", "error">>, <<"error", outcome>>})

\* _get_n8n_status (566-582)
get_n8n_status(outcome) ==
    IF outcome = "ok"
    THEN Dict({<<"status", "connected">>, <<"active_workflows", "n">>})
    ELSE Dict({<<"status", "error">>, <<"error", outcome>>})

\* get_system_status letting a failed outbound call reach its except clause
get_system_status_propagates(metrics, we, se, scs, n8n, now) ==
    IF scs # "ok"
    THEN Response("status", PyNone, 500, Dict({<<"error", scs>>}))
    ELSE IF n8n # "ok"
    THEN Response("status", PyNone, 500, Dict({<<"error", n8n>>}))
    ELSE Response("status", PyNone, 200,
                  [status                 |-> "healthy",
                   timestamp              |-> isoformat(now),
                   total_integrations     |-> Cardinality(DOMAIN metrics),
                   connected_integrations |->
                       Cardinality({s \in DOMAIN metrics : metrics[s].status = "connected"}),
                   integration_health     |-> get_scs_status(scs),
                   n8n_status             |-> get_n8n_status(n8n),
                   workflow_executions    |-> Len(we),
                   system_events          |-> Len(se)])

\* get_system_status (452-477)
get_system_status(metrics, we, se, scs, n8n, now) ==
    LET scs_status == get_scs_status(scs)
        n8n_status == get_n8n_status(n8n)
        total_integrations == Cardinality(DOMAIN metrics)
        connected_integrations ==
            Cardinality({s \in DOMAIN metrics : metrics[s].status = "connected"})
    IN  Response("status", PyNone, 200,
                 [status                 |-> "healthy",
                  timestamp              |-> isoformat(now),
                  total_integrations     |-> total_integrations,
                  connected_integrations |-> connected_integrations,
                  integration_health     |-> scs_status,
                  n8n_status             |-> n8n_status,
                  workflow_executions    |-> Len(we),
                  system_events          |-> Len(se)])

\* get_integration_metrics (479-493)
get_integration_metrics(metrics) ==
    Response("metrics", PyNone, 200,
             [s \in DOMAIN metrics |->
                 [metrics[s] EXCEPT !.last_success = isoformat(metrics[s].last_success),
                                    !.last_error   = isoformat(metrics[s].last_error)]])

\* health_check (545-550)
health_check(now) ==
    Response("health", PyNone, 200,
             [status |-> "healthy", timestamp |-> isoformat(now)])

\* _initialize_metrics (633-651)
default_integrations ==
    {"shared-context-server", "microsoft365", "github", "notion", "n8n", "external_apis"}

initialize_metrics(now) ==
    [integration \in default_integrations |->
        [service           |-> integration,
         status            |-> "unknown",
         response_time     |-> 0,
         success_rate      |-> 100,
         last_success      |-> now,
         last_error        |-> now,
         total_requests    |-> 0,
         error_count       |-> 0,
         uptime_percentage |-> 100]]

\* start() without the call of _initialize_metrics
start_metrics_unseeded(metrics, now) ==
    metrics

\* what start() leaves in integration_metrics: "await self._initialize_metrics()" (621)
start_metrics(metrics, now) ==
    initialize_metrics(now)

-----------------------------------------------------------------------------
(* The callers of the dashboard *)

\* Arguments add_system_event is called with.
EventTypeInputs == {"health_check", "workflow_execution"}
DataInputs      == {PyNone, Dict({<<"detail", "x">>})}

\* Bodies POSTed to /api/webhook: not JSON at all, JSON objects with and
\* without a "type" member, and JSON values that are not objects.
BodyUnparsable == [kind |-> "unparsable", fields |-> {}]
BodyTyped      == Dict({<<"type", "test">>})
BodyUntyped    == Dict({<<"action", "push">>})
BodyArray      == [kind |-> "array", fields |-> {}]
BodyInputs     == {BodyUnparsable, BodyTyped, BodyUntyped, BodyArray, PyNone}

\* Outcomes of an outbound GET: answered 200, answered with another status,
\* or failed on the network.
CallOutcomes == {"ok", "http_error", "network_error"}

\* WorkflowExecution values add_workflow_execution is called with.  The
\* dataclass (39-50) stores whatever start_time, end_time and duration its
\* constructor is given; the caller numbers the runs 1, 2, 3, ...
TimingInputs == {<<1, 3, 2>>, <<3, 1, 5>>}
StatusInputs == {"success", "error"}

Execution(id, status, timing) ==
    [workflow_id   |-> id,
     workflow_name |-> "email_to_github",
     status        |-> status,
     start_time    |-> timing[1],
     end_time      |-> timing[2],
     duration      |-> timing[3],
     input_data    |-> EmptyDict,
     output_data   |-> EmptyDict,
     error_message |-> IF status = "error" THEN "failed" ELSE ""]

\* The store and the record of what was passed to it, as one value.
Store ==
    [we |-> workflow_executions, se |-> system_events, clock |-> clock,
     hist |-> hist, origin |-> origin, whist |-> whist]

\* one add_system_event(event_type, "msg", data) call
CallEvent(st, event_type, data) ==
    [st EXCEPT !.se     = add_system_event(st.se, event_type, "msg", data, st.clock),
               !.hist   = Append(st.hist, system_event(event_type, "msg", data, st.clock)),
               !.origin = Append(st.origin, "event"),
               !.clock  = st.clock + 1]

\* one add_workflow_execution call; the caller numbers its runs 1, 2, 3, ...
CallExecution(st, status, timing) ==
    LET execution == Execution(Len(st.whist) + 1, status, timing)
        result == add_workflow_execution(st.we, st.se, execution, st.clock)
    IN  [st EXCEPT !.we     = result.we,
                   !.se     = result.se,
                   !.whist  = Append(st.whist, execution),
                   !.hist   = Append(st.hist, workflow_event(execution, st.clock)),
                   !.origin = Append(st.origin, "workflow"),
                   !.clock  = st.clock + 1]

\* k calls in a row, made by a caller that does not yield in between
\* (for ... in range(k): dashboard.add_...(...)).  The k calls are evaluated as
\* a first half and then a second half (the test on the clock makes the first
\* half's result a value before the second half starts), so that the
\* evaluation nests log k deep.
RECURSIVE CallRepeatedly(_, _, _)
CallRepeatedly(st, op, k) ==
    IF k = 0 THEN st
    ELSE IF k = 1
    THEN IF op = "event"
         THEN CallEvent(st, "health_check", PyNone)
         ELSE CallExecution(st, "success", <<1, 3, 2>>)
    ELSE LET half == CallRepeatedly(st, op, k \div 2)
         IN  IF half.clock > st.clock
             THEN CallRepeatedly(half, op, k - (k \div 2))
             ELSE st

\* The caller's script: its first act is a run of `calls` identical calls of
\* `op` that brings a log to one below a limit of the code (the read windows
\* of 50 and 100, the caps of 500 and 1000); "free" starts from the empty
\* store.  After it come at most MaxOps store-changing calls of any kind.
Free == [op |-> "none", calls |-> 0]

Scenarios ==
    {Free,
     [op |-> "event",    calls |-> EVENTS_LIMIT - 1],
     [op |-> "event",    calls |-> MAX_EVENTS - 1],
     [op |-> "workflow", calls |-> WORKFLOWS_LIMIT - 1],
     [op |-> "workflow", calls |-> MAX_EXECUTIONS - 1]}

Warming == scenario # Free

Serving == program = "dashboard" /\ dpc = "serving"

\* whether a request has been answered 500, now that response has been sent
Faulted(response) == faulted \/ response.status = 500

\* A request that leaves the store alone (a read, a rejected webhook) changes
\* only resp, and what it answers depends only on the store.  Such requests
\* are issued from the states a store-changing call or start has just
\* reached; from any other state they would reach the same states again.
AfterCall == resp.op = "none" \/ (resp.op = "webhook" /\ resp.status = 200)

Reading == Serving /\ ~Warming /\ AfterCall

-----------------------------------------------------------------------------
(* Actions of the dashboard *)

\* start (616-631), first part: the client session is opened (618) and the
\* registry is seeded (621)
Start ==
    /\ program = "dashboard" /\ dpc = "constructed"
    /\ dpc' = "seeded"
    /\ session' = "open"
    /\ integration_metrics' = start_metrics(integration_metrics, clock)
    /\ resp' = NoResponse
    /\ UNCHANGED <<hub_vars, program, scenario, workflow_executions, system_events,
                   clock, ops, hist, origin, whist,
                   cycles, inflight, collab, answered, session_answer, polled, hung, faulted>>

\* start, second part: runner.setup() and site.start() (623-627).  From here
\* on requests are accepted; when the site cannot be started (the port is
\* taken) the exception leaves start() and main()'s try block.
Listen ==
    /\ program = "dashboard" /\ dpc = "seeded"
    /\ \E bound \in BOOLEAN : dpc' = IF bound THEN "serving" ELSE "failed"
    /\ resp' = NoResponse
    /\ UNCHANGED <<run_vars, hub_vars, program, scenario, integration_metrics,
                   workflow_executions, system_events, clock, ops, hist, origin, whist>>

\* the store and its record become st
StoreBecomes(st) ==
    /\ workflow_executions' = st.we
    /\ system_events' = st.se
    /\ clock' = st.clock
    /\ hist' = st.hist
    /\ origin' = st.origin
    /\ whist' = st.whist

\* the run of calls the script opens with
CallInARow ==
    /\ Serving /\ Warming
    /\ StoreBecomes(CallRepeatedly(Store, scenario.op, scenario.calls))
    /\ scenario' = Free
    /\ resp' = NoResponse
    /\ UNCHANGED <<run_vars, hub_vars, program, dpc, integration_metrics, ops>>

CallAddSystemEvent ==
    /\ Serving /\ ~Warming /\ AfterCall
    /\ ops < MaxOps
    /\ \E event_type \in EventTypeInputs, data \in DataInputs :
          StoreBecomes(CallEvent(Store, event_type, data))
    /\ ops' = ops + 1
    /\ resp' = NoResponse
    /\ UNCHANGED <<run_vars, hub_vars, program, scenario, dpc, integration_metrics>>

CallAddWorkflowExecution ==
    /\ Serving /\ ~Warming /\ AfterCall
    /\ ops < MaxOps
    /\ \E status \in StatusInputs, timing \in TimingInputs :
          StoreBecomes(CallExecution(Store, status, timing))
    /\ ops' = ops + 1
    /\ resp' = NoResponse
    /\ UNCHANGED <<run_vars, hub_vars, program, scenario, dpc, integration_metrics>>

\* POST /api/webhook that also records a workflow run for the payload
PostWebhookTriggersWorkflow ==
    /\ Reading
    /\ \E body \in BodyInputs :
          LET result == handle_webhook(system_events, body, clock)
              stored == result.response.status = 200
              execution == Execution(Len(whist) + 1, "success", <<1, 3, 2>>)
          IN  /\ stored => ops < MaxOps
              /\ system_events' = result.se
              /\ resp' = result.response
              /\ hist' = IF stored THEN Append(hist, webhook_event(body, clock)) ELSE hist
              /\ origin' = IF stored THEN Append(origin, "webhook") ELSE origin
              /\ clock' = IF stored THEN clock + 1 ELSE clock
              /\ ops' = IF stored THEN ops + 1 ELSE ops
              /\ workflow_executions' =
                    IF stored THEN Append(workflow_executions, execution)
                    ELSE workflow_executions
              /\ whist' = IF stored THEN Append(whist, execution) ELSE whist
    /\ faulted' = Faulted(resp')
    /\ UNCHANGED <<hub_vars, program, scenario, dpc, integration_metrics,
                   session, cycles, inflight, collab, answered, session_answer, polled, hung>>

PostWebhook ==
    /\ Reading
    /\ \E body \in BodyInputs :
          LET result == handle_webhook(system_events, body, clock)
              stored == result.response.status = 200
          IN  /\ stored => ops < MaxOps
              /\ system_events' = result.se
              /\ resp' = result.response
              /\ hist' = IF stored THEN Append(hist, webhook_event(body, clock)) ELSE hist
              /\ origin' = IF stored THEN Append(origin, "webhook") ELSE origin
              /\ clock' = IF stored THEN clock + 1 ELSE clock
              /\ ops' = IF stored THEN ops + 1 ELSE ops
    /\ faulted' = Faulted(resp')
    /\ UNCHANGED <<hub_vars, program, scenario, dpc, integration_metrics,
                   workflow_executions, whist,
                   session, cycles, inflight, collab, answered, session_answer, polled, hung>>

GetStatus ==
    /\ Reading
    /\ \E scs \in CallOutcomes, n8n \in CallOutcomes :
          /\ resp' = get_system_status(integration_metrics, workflow_executions,
                                       system_events, scs, n8n, clock)
          /\ polled' = [scs |-> scs, n8n |-> n8n]
    /\ faulted' = Faulted(resp')
    /\ UNCHANGED <<hub_vars, program, scenario, dpc, integration_metrics, workflow_executions,
                   system_events, clock, ops, hist, origin, whist,
                   session, cycles, inflight, collab, answered, session_answer, hung>>

GetMetrics ==
    /\ Reading
    /\ resp' = get_integration_metrics(integration_metrics)
    /\ faulted' = Faulted(resp')
    /\ UNCHANGED <<hub_vars, program, scenario, dpc, integration_metrics, workflow_executions,
                   system_events, clock, ops, hist, origin, whist,
                   session, cycles, inflight, collab, answered, session_answer, polled, hung>>

\* GET /api/workflows that drops the executions it could not serialise
GetWorkflowsEvicting ==
    /\ Reading
    /\ resp' = get_workflow_executions(workflow_executions)
    /\ faulted' = Faulted(resp')
    /\ workflow_executions' =
          IF resp'.status = 500 THEN << >> ELSE workflow_executions
    /\ UNCHANGED <<hub_vars, program, scenario, dpc, integration_metrics,
                   system_events, clock, ops, hist, origin, whist,
                   session, cycles, inflight, collab, answered, session_answer, polled, hung>>

GetWorkflows ==
    /\ Reading
    /\ resp' = get_workflow_executions(workflow_executions)
    /\ faulted' = Faulted(resp')
    /\ UNCHANGED <<hub_vars, program, scenario, dpc, integration_metrics, workflow_executions,
                   system_events, clock, ops, hist, origin, whist,
                   session, cycles, inflight, collab, answered, session_answer, polled, hung>>

\* GET /api/events without its try/except: the exception leaves the handler
\* and takes the serving loop down with it
GetEventsCrashes ==
    /\ Reading
    /\ LET response == get_system_events(system_events)
       IN  /\ resp' = IF response.status = 500 THEN NoResponse ELSE response
           /\ dpc' = IF response.status = 500 THEN "failed" ELSE dpc
           /\ faulted' = Faulted(response)
    /\ UNCHANGED <<hub_vars, program, scenario, integration_metrics, workflow_executions,
                   system_events, clock, ops, hist, origin, whist,
                   session, cycles, inflight, collab, answered, session_answer, polled, hung>>

GetEvents ==
    /\ Reading
    /\ resp' = get_system_events(system_events)
    /\ faulted' = Faulted(resp')
    /\ UNCHANGED <<hub_vars, program, scenario, dpc, integration_metrics, workflow_executions,
                   system_events, clock, ops, hist, origin, whist,
                   session, cycles, inflight, collab, answered, session_answer, polled, hung>>

GetHealth ==
    /\ Reading
    /\ resp' = health_check(clock)
    /\ faulted' = Faulted(resp')
    /\ UNCHANGED <<hub_vars, program, scenario, dpc, integration_metrics, workflow_executions,
                   system_events, clock, ops, hist, origin, whist,
                   session, cycles, inflight, collab, answered, session_answer, polled, hung>>

-----------------------------------------------------------------------------
(* Records that cannot be serialised, and the server going on to the next
   request *)

\* add_system_event or add_workflow_execution called with a dict that holds a
\* datetime: neither checks what it stores (584-614)
CallAddNotJson ==
    /\ Serving /\ ~Warming /\ AfterCall
    /\ ops < MaxOps
    /\ \/ StoreBecomes(CallEvent(Store, "health_check", NotJson))
       \/ LET execution == [Execution(Len(whist) + 1, "success", <<1, 3, 2>>)
                               EXCEPT !.input_data = NotJson]
              result == add_workflow_execution(workflow_executions, system_events,
                                               execution, clock)
          IN  /\ workflow_executions' = result.we
              /\ system_events' = result.se
              /\ whist' = Append(whist, execution)
              /\ hist' = Append(hist, workflow_event(execution, clock))
              /\ origin' = Append(origin, "workflow")
              /\ clock' = clock + 1
    /\ ops' = ops + 1
    /\ resp' = NoResponse
    /\ UNCHANGED <<run_vars, hub_vars, program, scenario, dpc, integration_metrics>>

\* The handler has returned its 500 and the server waits for the next request
\* (aiohttp's request loop; the handlers are registered in 84-92).  After an
\* answer 200 to a read the next request would start from a state already
\* seen (see AfterCall); after a 500 it starts from one that remembers the
\* fault.
Settle ==
    /\ Serving
    /\ resp.status = 500
    /\ resp' = NoResponse
    /\ UNCHANGED <<run_vars, dashboard_vars, hub_vars, program, clock>>

-----------------------------------------------------------------------------
(* The dashboard's handlers as asyncio tasks.  A coroutine gives up the event
   loop only at an await.  handle_webhook has one, "await request.json()"
   (522), before it touches the store; get_system_events, add_system_event
   and add_workflow_execution have none, and get_workflow_executions has none
   either.  So a webhook is two steps, with any other handler's steps in
   between, and every other operation on the store is one step. *)

\* the bodies of the webhooks that are posted while others are in flight
ConcBodies == {BodyUnparsable, BodyTyped, BodyArray}

\* the logs the concurrent requests start from: empty, and one below the cap
ConcScenarios == {Free, [op |-> "event", calls |-> MAX_EVENTS - 1]}

\* number of suspended webhook handlers
RECURSIVE InFlightOf(_)
InFlightOf(bodies) ==
    IF bodies = {} THEN 0
    ELSE LET b == CHOOSE x \in bodies : TRUE
         IN  inflight[b] + InFlightOf(bodies \ {b})

InFlight == InFlightOf(BodyInputs)

\* handle_webhook up to "await request.json()" (519-522): the handler is
\* suspended until the body has arrived
WebhookReceive ==
    /\ Reading
    /\ InFlight < MaxInFlight
    /\ \E body \in ConcBodies : inflight' = [inflight EXCEPT ![body] = @ + 1]
    /\ UNCHANGED <<dashboard_vars, hub_vars, program, clock, resp,
                   session, cycles, collab, answered, session_answer, polled, hung, faulted>>

\* handle_webhook resumed, the step ending between the append (527) and the
\* trim (537)
WebhookResumeAppendOnly ==
    /\ Serving /\ ~Warming
    /\ \E body \in BodyInputs :
          LET result == handle_webhook(system_events, body, clock)
              stored == result.response.status = 200
          IN  /\ inflight[body] > 0
              /\ stored => ops < MaxOps
              /\ inflight' = [inflight EXCEPT ![body] = @ - 1]
              /\ system_events' = IF stored
                                  THEN Append(system_events, webhook_event(body, clock))
                                  ELSE system_events
              /\ resp' = result.response
              /\ hist' = IF stored THEN Append(hist, webhook_event(body, clock)) ELSE hist
              /\ origin' = IF stored THEN Append(origin, "webhook") ELSE origin
              /\ clock' = IF stored THEN clock + 1 ELSE clock
              /\ ops' = IF stored THEN ops + 1 ELSE ops
    /\ UNCHANGED <<hub_vars, program, scenario, dpc, integration_metrics,
                   workflow_executions, whist,
                   session, cycles, collab, answered, session_answer, polled, hung>>
    /\ faulted' = Faulted(resp')

\* handle_webhook from the await to its return (522-543): no await in between
WebhookResume ==
    /\ Serving /\ ~Warming
    /\ \E body \in BodyInputs :
          LET result == handle_webhook(system_events, body, clock)
              stored == result.response.status = 200
          IN  /\ inflight[body] > 0
              /\ stored => ops < MaxOps
              /\ inflight' = [inflight EXCEPT ![body] = @ - 1]
              /\ system_events' = result.se
              /\ resp' = result.response
              /\ hist' = IF stored THEN Append(hist, webhook_event(body, clock)) ELSE hist
              /\ origin' = IF stored THEN Append(origin, "webhook") ELSE origin
              /\ clock' = IF stored THEN clock + 1 ELSE clock
              /\ ops' = IF stored THEN ops + 1 ELSE ops
    /\ UNCHANGED <<hub_vars, program, scenario, dpc, integration_metrics,
                   workflow_executions, whist,
                   session, cycles, collab, answered, session_answer, polled, hung>>
    /\ faulted' = Faulted(resp')

-----------------------------------------------------------------------------
(* main() of the dashboard (659-682): start, then every 60 seconds one pass
   over the registry that moves response_time and success_rate by a random
   amount, until an interrupt or an exception; stop() in the finally clause.
   Times are in milliseconds and rates in percent, as integers; the random
   amounts are drawn at the ends of their ranges. *)

\* <<random.uniform(-5, 5), random.uniform(-1, 1)>> (675-676)
JitterInputs == {<<-5, -1>>, <<5, 1>>}

Max(a, b) == IF a > b THEN a ELSE b
Min(a, b) == IF a < b THEN a ELSE b

\* the loop body without the clamps
refresh_metric_unclamped(metric, jitter) ==
    [metric EXCEPT !.response_time = metric.response_time + jitter[1],
                   !.success_rate  = metric.success_rate + jitter[2]]

\* the loop body for one metric (675-676)
refresh_metric(metric, jitter) ==
    [metric EXCEPT !.response_time = Max(10, metric.response_time + jitter[1]),
                   !.success_rate  = Max(90, Min(100, metric.success_rate + jitter[2]))]

\* stop leaving the session as it is
stop_keeps_session(sess) ==
    sess

\* stop (653-657): "if self.session: await self.session.close()"
stop(sess) ==
    IF sess = "open" THEN "closed" ELSE sess

\* an iteration that also polls: it counts a request and marks the service connected
RefreshCyclePolling ==
    /\ Serving
    /\ cycles < MaxCycles
    /\ \E jitter \in [DOMAIN integration_metrics -> JitterInputs] :
          integration_metrics' =
              [s \in DOMAIN integration_metrics |->
                  [refresh_metric(integration_metrics[s], jitter[s])
                      EXCEPT !.status = "connected",
                             !.total_requests = @ + 1]]
    /\ cycles' = cycles + 1
    /\ resp' = NoResponse
    /\ UNCHANGED <<hub_vars, program, scenario, dpc, workflow_executions, system_events,
                   clock, ops, hist, origin, whist,
                   session, inflight, collab, answered, session_answer, polled, hung, faulted>>

\* one iteration of "while True" (672-676)
RefreshCycle ==
    /\ Serving
    /\ cycles < MaxCycles
    /\ \E jitter \in [DOMAIN integration_metrics -> JitterInputs] :
          integration_metrics' =
              [s \in DOMAIN integration_metrics |->
                  refresh_metric(integration_metrics[s], jitter[s])]
    /\ cycles' = cycles + 1
    /\ resp' = NoResponse
    /\ UNCHANGED <<hub_vars, program, scenario, dpc, workflow_executions, system_events,
                   clock, ops, hist, origin, whist,
                   session, inflight, collab, answered, session_answer, polled, hung, faulted>>

\* KeyboardInterrupt or cancellation, delivered at an await of main():
\* inside start() once the session is open, or at asyncio.sleep(60) (673)
Interrupt ==
    /\ program = "dashboard" /\ dpc \in {"seeded", "serving"}
    /\ dpc' = "interrupted"
    /\ resp' = NoResponse
    /\ UNCHANGED <<run_vars, hub_vars, program, scenario, integration_metrics,
                   workflow_executions, system_events, clock, ops, hist, origin, whist>>

\* the finally clause (681-682), after which main() returns
Stop ==
    /\ program = "dashboard" /\ dpc \in {"failed", "interrupted"}
    /\ dpc' = "exited"
    /\ session' = stop(session)
    /\ resp' = NoResponse
    /\ UNCHANGED <<hub_vars, program, scenario, integration_metrics,
                   workflow_executions, system_events, clock, ops, hist, origin, whist,
                   cycles, inflight, collab, answered, session_answer, polled, hung, faulted>>

-----------------------------------------------------------------------------
(* The hub: main.py *)

\* The environment variables the hub reads, each set (to a non-empty value) or not.
EnvNames == {"MS365_TENANT_ID", "MS365_CLIENT_ID", "GITHUB_TOKEN", "NOTION_TOKEN",
             "NOTION_DATABASE_ID", "SLACK_BOT_TOKEN", "JIRA_API_TOKEN", "JIRA_URL",
             "SALESFORCE_CLIENT_ID"}
Envs  == [EnvNames -> BOOLEAN]
NoEnv == [n \in EnvNames |-> FALSE]

\* IntegrationStatus (28-34)
IntegrationStatus(service, status, last_check, metrics) ==
    [service |-> service, status |-> status, last_check |-> last_check,
     metrics |-> metrics]

\* the keys initialize() writes into self.integrations (89, 141, 194, 241, 280, 318)
hub_integrations ==
    {"shared-context-server", "microsoft365", "github", "notion", "n8n", "external_apis"}

\* the collaborators initialize() sends requests to (82, 182, 272, 336)
Collaborators == {"shared-context-server", "github", "n8n"}

\* the services whose check asks the Shared Context Server for a session
\* (136, 186, 233)
SessionUsers == {"microsoft365", "github", "notion"}

\* collaborator c answers the requests made to it, with whatever outcome
Answers(c) == c \notin hung

\* how a POST /api/sessions ends (336-347): as any call, with an answer 200
\* that carries a JSON object
SessionOutcomes == CallOutcomes

\* the collaborators initialize() calls without needing a credential
Polled == {"shared-context-server", "n8n"}

\* what a step of initialize() yields when an exception leaves it
Raised == IntegrationStatus("", "raised", 0, EmptyDict)

\* _create_scs_session (327-347): the session document, or {} when the call fails
create_scs_session(outcome) ==
    IF outcome = "ok" THEN Dict({<<"session_id", "sid">>}) ELSE EmptyDict

\* _connect_scs without its try/except: a failed call leaves the method
connect_scs_unguarded(outcome, now) ==
    IF outcome = "ok"
    THEN IntegrationStatus("Shared Context Server", "connected", now,
                           Dict({<<"status", "healthy">>}))
    ELSE Raised

\* _connect_scs (79-104)
connect_scs(outcome, now) ==
    IF outcome = "ok"
    THEN IntegrationStatus("Shared Context Server", "connected", now,
                           Dict({<<"status", "healthy">>}))
    ELSE IntegrationStatus("Shared Context Server", "error", now,
                           Dict({<<"error", outcome>>}))

\* _init_microsoft365 marking the service in error when no session was created
init_microsoft365_session_required(e, session_outcome, now) ==
    IF e["MS365_TENANT_ID"] /\ e["MS365_CLIENT_ID"]
    THEN IF session_outcome = "ok"
         THEN IntegrationStatus("Microsoft 365", "connected", now,
                  Dict({<<"session_id", "sid">>, <<"tenant", "MS365_TENANT_ID">>}))
         ELSE IntegrationStatus("Microsoft 365", "error", now,
                                Dict({<<"error", session_outcome>>}))
    ELSE IntegrationStatus("Microsoft 365", "disconnected", now,
                           Dict({<<"error", "credentials_not_configured">>}))

\* _init_microsoft365 (125-164).  _create_scs_session returns a dict and does
\* not raise, so no statement of the try block raises and the except clause
\* (157-164) is not entered.
init_microsoft365(e, session_outcome, now) ==
    IF e["MS365_TENANT_ID"] /\ e["MS365_CLIENT_ID"]
    THEN LET session_data == create_scs_session(session_outcome)
         IN  IntegrationStatus("Microsoft 365", "connected", now,
                 Dict({<<"session_id", dict_get(session_data, "session_id", "None")>>,
                       <<"tenant", "MS365_TENANT_ID">>}))
    ELSE IntegrationStatus("Microsoft 365", "disconnected", now,
                           Dict({<<"error", "credentials_not_configured">>}))

\* _init_github_enterprise (166-221)
init_github_enterprise(e, outcome, session_outcome, now) ==
    IF e["GITHUB_TOKEN"]
    THEN IF outcome = "ok"
         THEN LET session_data == create_scs_session(session_outcome)
              IN  IntegrationStatus("GitHub Enterprise", "connected", now,
                      Dict({<<"session_id", dict_get(session_data, "session_id", "None")>>,
                            <<"user", "login">>,
                            <<"enterprise_url", "GITHUB_ENTERPRISE_URL">>}))
         ELSE IntegrationStatus("GitHub Enterprise", "error", now,
                                Dict({<<"error", outcome>>}))
    ELSE IntegrationStatus("GitHub Enterprise", "disconnected", now,
                           Dict({<<"error", "token_not_configured">>}))

\* _init_notion (223-267); as in _init_microsoft365 no statement of the try
\* block raises
init_notion(e, session_outcome, now) ==
    IF e["NOTION_TOKEN"] /\ e["NOTION_DATABASE_ID"]
    THEN LET session_data == create_scs_session(session_outcome)
         IN  IntegrationStatus("Notion", "connected", now,
                 Dict({<<"session_id", dict_get(session_data, "session_id", "None")>>,
                       <<"database_id", "NOTION_DATABASE_ID">>}))
    ELSE IntegrationStatus("Notion", "disconnected", now,
                           Dict({<<"error", "credentials_not_configured">>}))

\* _init_n8n (269-298)
init_n8n(outcome, now) ==
    IF outcome = "ok"
    THEN IntegrationStatus("n8n Workflows", "connected", now,
                           Dict({<<"active_workflows", "n">>, <<"url", "N8N_URL">>}))
    ELSE IntegrationStatus("n8n Workflows", "error", now,
                           Dict({<<"error", outcome>>}))

\* _init_external_apis taking Jira as configured on its token alone
init_external_apis_jira_token_only(e, now) ==
    LET external_apis ==
            (IF e["SLACK_BOT_TOKEN"] THEN {"slack"} ELSE {})
            \cup (IF e["JIRA_API_TOKEN"] THEN {"jira"} ELSE {})
            \cup (IF e["SALESFORCE_CLIENT_ID"] THEN {"salesforce"} ELSE {})
    IN  IntegrationStatus("External APIs",
                          IF external_apis # {} THEN "connected" ELSE "disconnected",
                          now,
                          Dict({<<"configured_apis", external_apis>>}))

\* _init_external_apis (300-325)
init_external_apis(e, now) ==
    LET external_apis ==
            (IF e["SLACK_BOT_TOKEN"] THEN {"slack"} ELSE {})
            \cup (IF e["JIRA_API_TOKEN"] /\ e["JIRA_URL"] THEN {"jira"} ELSE {})
            \cup (IF e["SALESFORCE_CLIENT_ID"] THEN {"salesforce"} ELSE {})
    IN  IntegrationStatus("External APIs",
                          IF external_apis # {} THEN "connected" ELSE "disconnected",
                          now,
                          Dict({<<"configured_apis", external_apis>>}))

\* get_system_status counting every entry that is not disconnected
hub_get_system_status_not_disconnected(integ, now) ==
    Response("hub_status", PyNone, 200,
             [hub_status   |-> "running",
              timestamp    |-> isoformat(now),
              integrations |->
                  [name \in DOMAIN integ |->
                      [status     |-> integ[name].status,
                       last_check |-> isoformat(integ[name].last_check),
                       metrics    |-> integ[name].metrics]],
              total_integrations     |-> Cardinality(DOMAIN integ),
              connected_integrations |->
                  Cardinality({name \in DOMAIN integ : integ[name].status # "disconnected"})])

\* EnterpriseIntegrationHub.get_system_status (531-546)
hub_get_system_status(integ, now) ==
    Response("hub_status", PyNone, 200,
             [hub_status   |-> "running",
              timestamp    |-> isoformat(now),
              integrations |->
                  [name \in DOMAIN integ |->
                      [status     |-> integ[name].status,
                       last_check |-> isoformat(integ[name].last_check),
                       metrics    |-> integ[name].metrics]],
              total_integrations     |-> Cardinality(DOMAIN integ),
              connected_integrations |->
                  Cardinality({name \in DOMAIN integ : integ[name].status = "connected"})])

\* a local variable of process_email_to_github_workflow that no statement has
\* assigned yet; reading it raises UnboundLocalError
Unbound == [kind |-> "unbound", fields |-> {}]

\* the email_data the workflow is called with (a dict, 364): with and
\* without a subject
EmailWithSubject == Dict({<<"subject", "s">>, <<"from", "a">>, <<"body", "b">>})
EmailBare        == EmptyDict
Emails           == {EmailWithSubject, EmailBare}

\* _analyze_email_with_scs (409-435): the answer's JSON on 200, a fallback
\* on another status, an error document when the call raises; never raises
analyze_email_with_scs(outcome) ==
    CASE outcome = "ok"         -> Dict({<<"analysis", "done">>})
      [] outcome = "http_error" -> Dict({<<"analysis", "manual_fallback">>,
                                         <<"category", "technical_request">>})
      [] OTHER                  -> Dict({<<"analysis", "error">>, <<"error", outcome>>})

\* _create_github_issue_from_email (437-490): the created issue on 201, {}
\* on any other status or when the call raises
create_github_issue_from_email(outcome) ==
    IF outcome = "ok" THEN Dict({<<"html_url", "issue_url">>}) ELSE EmptyDict

\* "x.get(key) if x else None"
get_if_truthy(x, key) ==
    IF x.kind = "object" /\ x.fields # {} THEN dict_get(x, key, "None") ELSE "None"

\* _create_notion_documentation (492-513): a simulated page
create_notion_documentation(email_data, github_issue) ==
    Dict({<<"title", dict_get(email_data, "subject", "Sin asunto")>>,
          <<"url", "notion_url">>,
          <<"GitHub Issue", get_if_truthy(github_issue, "html_url")>>})

\* what the workflow returns when an exception reaches its except clause (405-407)
WorkflowFailed(error, steps) ==
    Response("email_workflow", PyNone, 0,
             [success |-> FALSE, error |-> error, steps |-> steps])

\* what the workflow returns at the end of its try block (398-403)
WorkflowDone(github_issue, notion_page, steps, details) ==
    Response("email_workflow", PyNone, 0,
             [success |-> TRUE, workflow |-> "email_to_github_to_notion",
              github_issue |-> github_issue, notion_page |-> notion_page,
              steps |-> steps, details |-> details])

\* the workflow with github_issue and notion_page set to None before the try
process_email_to_github_workflow_locals_none(integ, email_data, analysis_outcome, issue_outcome) ==
    LET github_issue ==
            IF integ["github"].status = "connected"
            THEN create_github_issue_from_email(issue_outcome) ELSE PyNone
        notion_page ==
            IF integ["notion"].status = "connected"
            THEN create_notion_documentation(email_data, github_issue) ELSE PyNone
        steps == <<"analyse">>
                 \o (IF integ["github"].status = "connected" THEN <<"github">> ELSE <<>>)
                 \o (IF integ["notion"].status = "connected" THEN <<"notion">> ELSE <<>>)
                 \o <<"notify">>
    IN  WorkflowDone(github_issue, notion_page, steps,
                     Dict({<<"email_subject", dict_get(email_data, "subject", "None")>>,
                           <<"github_issue", get_if_truthy(github_issue, "html_url")>>,
                           <<"notion_doc", get_if_truthy(notion_page, "url")>>}))

\* process_email_to_github_workflow (364-407).  github_issue and notion_page
\* are assigned only inside the two "if ... status == 'connected'" blocks;
\* step 3 passes github_issue and step 4 reads both.  steps lists the calls
\* made, in order; details is what step 4 hands to Teams.
process_email_to_github_workflow(integ, email_data, analysis_outcome, issue_outcome) ==
    IF ~({"github", "notion", "microsoft365"} \subseteq DOMAIN integ)
    THEN WorkflowFailed("KeyError", <<"analyse">>)
    ELSE
    LET analysis_data == analyze_email_with_scs(analysis_outcome)
        github_connected == integ["github"].status = "connected"
        notion_connected == integ["notion"].status = "connected"
        github_issue ==
            IF github_connected
            THEN create_github_issue_from_email(issue_outcome) ELSE Unbound
        after_github == <<"analyse">> \o (IF github_connected THEN <<"github">> ELSE <<>>)
        notion_page ==
            IF notion_connected /\ github_issue # Unbound
            THEN create_notion_documentation(email_data, github_issue) ELSE Unbound
        after_notion == after_github \o (IF notion_page # Unbound THEN <<"notion">> ELSE <<>>)
    IN  IF notion_connected /\ github_issue = Unbound
        THEN WorkflowFailed("UnboundLocalError: github_issue", after_github)
        ELSE IF github_issue = Unbound
        THEN WorkflowFailed("UnboundLocalError: github_issue", after_notion)
        ELSE IF notion_page = Unbound
        THEN WorkflowFailed("UnboundLocalError: notion_page", after_notion)
        ELSE WorkflowDone(github_issue, notion_page, after_notion \o <<"notify">>,
                 Dict({<<"email_subject", dict_get(email_data, "subject", "None")>>,
                       <<"github_issue", get_if_truthy(github_issue, "html_url")>>,
                       <<"notion_doc", get_if_truthy(notion_page, "url")>>}))

\* self.integrations[key] = value
Upsert(integ, key, value) ==
    [k \in DOMAIN integ \cup {key} |-> IF k = key THEN value ELSE integ[k]]

\* One step of initialize() (61-77) and _initialize_integrations() (106-123):
\* the registry entry is written and control passes to the next step.
\* When the step raises instead (value is Raised), the exception leaves
\* initialize() and main()'s try block.  outcome is what the service's own
\* check was answered ("none" when the step makes no call of its own).
HubStep(at, next, key, value, outcome) ==
    /\ program = "hub" /\ hpc = at
    /\ IF value = Raised
       THEN hpc' = "failed" /\ integrations' = integrations
       ELSE hpc' = next /\ integrations' = Upsert(integrations, key, value)
    /\ answered' = [answered EXCEPT ![key] = outcome]
    /\ clock' = clock + 1
    /\ resp' = NoResponse
    /\ UNCHANGED <<dashboard_vars, program, env,
                   session, cycles, inflight, collab, polled, hung, faulted>>

\* the step for service key asks for a session when asked holds, and the
\* request ends with session_outcome
SessionAsked(key, asked, session_outcome) ==
    session_answer' = [session_answer EXCEPT
                          ![key] = IF asked THEN session_outcome ELSE "none"]

\* initialize() opens the client session (66)
HubInitialize ==
    /\ program = "hub" /\ hpc = "new"
    /\ hpc' = "connect_scs"
    /\ session' = "open"
    /\ resp' = NoResponse
    /\ UNCHANGED <<dashboard_vars, program, env, integrations, clock,
                   cycles, inflight, collab, answered, session_answer, polled, hung, faulted>>

\* Each step awaits the answers of the requests it makes ("async with
\* self.session.get(...) as response", "await self._create_scs_session(...)")
\* and the code sets no timeout of its own: the step is taken when the
\* collaborators it calls have answered.
ConnectScs ==
    /\ Answers("shared-context-server")
    /\ \E outcome \in CallOutcomes :
          HubStep("connect_scs", "init_microsoft365", "shared-context-server",
                  connect_scs(outcome, clock), outcome)
    /\ UNCHANGED session_answer

InitMicrosoft365 ==
    /\ (env["MS365_TENANT_ID"] /\ env["MS365_CLIENT_ID"]) => Answers("shared-context-server")
    /\ \E session_outcome \in SessionOutcomes :
          /\ HubStep("init_microsoft365", "init_github", "microsoft365",
                     init_microsoft365(env, session_outcome, clock), "none")
          /\ SessionAsked("microsoft365", env["MS365_TENANT_ID"] /\ env["MS365_CLIENT_ID"],
                          session_outcome)

InitGithubEnterprise ==
    /\ env["GITHUB_TOKEN"] => Answers("github")
    /\ \E outcome \in CallOutcomes, session_outcome \in SessionOutcomes :
          /\ (env["GITHUB_TOKEN"] /\ outcome = "ok") => Answers("shared-context-server")
          /\ HubStep("init_github", "init_notion", "github",
                     init_github_enterprise(env, outcome, session_outcome, clock),
                     IF env["GITHUB_TOKEN"] THEN outcome ELSE "none")
          /\ SessionAsked("github", env["GITHUB_TOKEN"] /\ outcome = "ok", session_outcome)

InitNotion ==
    /\ (env["NOTION_TOKEN"] /\ env["NOTION_DATABASE_ID"]) => Answers("shared-context-server")
    /\ \E session_outcome \in SessionOutcomes :
          /\ HubStep("init_notion", "init_n8n", "notion",
                     init_notion(env, session_outcome, clock), "none")
          /\ SessionAsked("notion", env["NOTION_TOKEN"] /\ env["NOTION_DATABASE_ID"],
                          session_outcome)

InitN8n ==
    /\ Answers("n8n")
    /\ \E outcome \in CallOutcomes :
          HubStep("init_n8n", "init_external", "n8n", init_n8n(outcome, clock), outcome)
    /\ UNCHANGED session_answer

InitExternalApis ==
    /\ HubStep("init_external", "health_check", "external_apis",
               init_external_apis(env, clock), "none")
    /\ UNCHANGED session_answer

\* _health_check_all (349-362): logs every status, changes none
HealthCheckAll ==
    /\ program = "hub" /\ hpc = "health_check"
    /\ hpc' = "running"
    /\ resp' = NoResponse
    /\ UNCHANGED <<run_vars, dashboard_vars, program, env, integrations, clock>>

\* get_system_status, called by another task at any point of the run
HubGetSystemStatus ==
    /\ program = "hub" /\ resp.op = "none"
    /\ resp' = hub_get_system_status(integrations, clock)
    /\ UNCHANGED <<run_vars, dashboard_vars, hub_vars, program, clock>>

\* process_email_to_github_workflow, called once initialize() has returned.
\* It awaits the Shared Context Server's answer to the analysis request and,
\* when github is connected, GitHub's answer to the issue request.
HubProcessEmail ==
    /\ program = "hub" /\ hpc = "running" /\ resp.op = "none"
    /\ Answers("shared-context-server")
    /\ integrations["github"].status = "connected" => Answers("github")
    /\ \E email_data \in Emails, analysis_outcome \in CallOutcomes,
          issue_outcome \in CallOutcomes :
          resp' = process_email_to_github_workflow(integrations, email_data,
                                                   analysis_outcome, issue_outcome)
    /\ UNCHANGED <<run_vars, dashboard_vars, hub_vars, program, clock>>

\* shutdown (548-555): "if self.session: await self.session.close()"
shutdown(sess) ==
    IF sess = "open" THEN "closed" ELSE sess

\* one iteration of main()'s loop (565-569): sleep 60 seconds, then
\* _health_check_all, which logs the recorded statuses and calls no
\* collaborator.  During the iteration the collaborators are in some
\* condition c.
HubCycle ==
    /\ program = "hub" /\ hpc = "running"
    /\ cycles < MaxCycles
    /\ \E c \in [Polled -> CallOutcomes] : collab' = c
    /\ cycles' = cycles + 1
    /\ resp' = NoResponse
    /\ UNCHANGED <<dashboard_vars, hub_vars, program, clock,
                   session, inflight, answered, session_answer, polled, hung, faulted>>

\* KeyboardInterrupt or cancellation, delivered at an await of initialize()
\* or at asyncio.sleep(60) (566)
HubInterrupt ==
    /\ program = "hub" /\ hpc \notin {"new", "failed", "interrupted", "exited"}
    /\ hpc' = "interrupted"
    /\ resp' = NoResponse
    /\ UNCHANGED <<run_vars, dashboard_vars, program, env, integrations, clock>>

\* the finally clause (575-576), after which main() returns
HubShutdown ==
    /\ program = "hub" /\ hpc \in {"failed", "interrupted"}
    /\ hpc' = "exited"
    /\ session' = shutdown(session)
    /\ resp' = NoResponse
    /\ UNCHANGED <<dashboard_vars, program, env, integrations, clock,
                   cycles, inflight, collab, answered, session_answer, polled, hung, faulted>>

-----------------------------------------------------------------------------

\* the state before main() has done anything: self.session = None
\* (dashboard.py 82, main.py 47)
RunInit ==
    /\ session = "none"
    /\ cycles = 0
    /\ inflight = [b \in BodyInputs |-> 0]
    /\ collab = [c \in Polled |-> "ok"]
    /\ answered = [k \in hub_integrations |-> "none"]
    /\ session_answer = [k \in SessionUsers |-> "none"]
    /\ polled = [scs |-> "none", n8n |-> "none"]
    /\ faulted = FALSE

\* __init__ (55-82): empty store
InitDashboard ==
    /\ program = "dashboard"
    /\ scenario \in Scenarios
    /\ dpc = "constructed"
    /\ integration_metrics = [s \in {} |-> 0]
    /\ workflow_executions = << >>
    /\ system_events = << >>
    /\ clock = 1
    /\ resp = NoResponse
    /\ ops = 0
    /\ hist = << >>
    /\ origin = << >>
    /\ whist = << >>
    /\ env = NoEnv
    /\ hpc = "off"
    /\ integrations = [s \in {} |-> 0]
    /\ RunInit
    /\ hung = {}

\* EnterpriseIntegrationHub.__init__ (39-59): empty registry, no session
HubConstructed ==
    /\ program = "hub"
    /\ hpc = "new"
    /\ integrations = [s \in {} |-> 0]
    /\ clock = 1
    /\ resp = NoResponse
    /\ scenario = Free
    /\ dpc = "off"
    /\ integration_metrics = [s \in {} |-> 0]
    /\ workflow_executions = << >>
    /\ system_events = << >>
    /\ ops = 0
    /\ hist = << >>
    /\ origin = << >>
    /\ whist = << >>
    /\ RunInit

\* every collaborator answers
InitHub == HubConstructed /\ env \in Envs /\ hung = {}

Init == InitDashboard \/ InitHub

Next ==
    \/ Start
    \/ Listen
    \/ CallInARow
    \/ CallAddSystemEvent
    \/ CallAddWorkflowExecution
    \/ PostWebhook
    \/ GetStatus
    \/ GetMetrics
    \/ GetWorkflows
    \/ GetEvents
    \/ GetHealth
    \/ HubInitialize
    \/ ConnectScs
    \/ InitMicrosoft365
    \/ InitGithubEnterprise
    \/ InitNotion
    \/ InitN8n
    \/ InitExternalApis
    \/ HealthCheckAll
    \/ HubGetSystemStatus

Spec == Init /\ [][Next]_vars

\* The dashboard serving concurrent requests.
InitConc == InitDashboard /\ scenario \in ConcScenarios

NextConc ==
    \/ Start
    \/ Listen
    \/ CallInARow
    \/ CallAddSystemEvent
    \/ CallAddWorkflowExecution
    \/ WebhookReceive
    \/ WebhookResume
    \/ GetEvents

SpecConc == InitConc /\ [][NextConc]_vars

\* main() of either program from its first statement to its return.
MainEnvs == {NoEnv, [n \in EnvNames |-> TRUE]}

InitMain ==
    \/ InitDashboard /\ scenario = Free
    \/ InitHub /\ env \in MainEnvs

NextMain ==
    \/ Start
    \/ Listen
    \/ GetMetrics
    \/ RefreshCycle
    \/ Interrupt
    \/ Stop
    \/ HubInitialize
    \/ ConnectScs
    \/ InitMicrosoft365
    \/ InitGithubEnterprise
    \/ InitNotion
    \/ InitN8n
    \/ InitExternalApis
    \/ HealthCheckAll
    \/ HubCycle
    \/ HubInterrupt
    \/ HubShutdown

SpecMain == InitMain /\ [][NextMain]_vars

\* The dashboard serving requests one after another, good and bad, while
\* main()'s loop runs.  Budget keeps the run short: store-changing calls and
\* loop iterations together number at most MaxOps, and the loop makes one
\* iteration, between two requests.
Budget == ops + cycles < MaxOps

InitServe == InitDashboard /\ scenario = Free

NextServe ==
    \/ Start
    \/ Listen
    \/ Budget /\ CallAddSystemEvent
    \/ Budget /\ CallAddWorkflowExecution
    \/ Budget /\ CallAddNotJson
    \/ Budget /\ PostWebhook
    \/ GetStatus
    \/ GetMetrics
    \/ GetWorkflows
    \/ GetEvents
    \/ GetHealth
    \/ Settle
    \/ Budget /\ AfterCall /\ cycles = 0 /\ RefreshCycle

SpecServe == InitServe /\ [][NextServe]_vars

\* initialize() of the hub when a collaborator may hang.  Every step that can
\* be taken is taken in the end: the event loop runs the coroutine whenever
\* the answer it awaits has arrived.
EnvWith(names) == [n \in EnvNames |-> n \in names]

HubEnvs ==
    {NoEnv,
     EnvWith(EnvNames),
     EnvWith({"GITHUB_TOKEN"}),
     EnvWith({"NOTION_TOKEN", "NOTION_DATABASE_ID"})}

Hangs == {{}} \cup {{c} : c \in Collaborators}

InitHang == HubConstructed /\ env \in HubEnvs /\ hung \in Hangs

NextHub ==
    \/ HubInitialize
    \/ ConnectScs
    \/ InitMicrosoft365
    \/ InitGithubEnterprise
    \/ InitNotion
    \/ InitN8n
    \/ InitExternalApis
    \/ HealthCheckAll
    \/ HubProcessEmail

SpecHub == InitHang /\ [][NextHub]_vars /\ WF_vars(NextHub)

-----------------------------------------------------------------------------
(* Properties *)


\* the last k entries of s, in order
Suffix(s, k) == [i \in 1..k |-> s[Len(s) - k + i]]

\* the operations that appended entries of the event log
Origins == {origin[i] : i \in 1..Len(origin)}

\* C1: after n appended events (by add_system_event, add_workflow_execution
\* or an accepted webhook) system_events is exactly the last min(n, 500) of
\* them, in the order they were appended.
C1_EventsAreLastAppended ==
    system_events = Suffix(hist, Min(Len(hist), 500))

\* C1 witness: 501 events were appended, by all three operations.
C1_Witness ==
    /\ Len(hist) = 501
    /\ Len(system_events) = 500
    /\ Origins = {"event", "workflow", "webhook"}

\* C2: after n add_workflow_execution calls workflow_executions is exactly the
\* last min(n, 1000) executions passed in, in call order.
C2_ExecutionsAreLastAppended ==
    workflow_executions = Suffix(whist, Min(Len(whist), 1000))

\* C2 witness: 1001 executions were passed in and 1000 are kept.
C2_Witness ==
    /\ Len(whist) = 1001
    /\ Len(workflow_executions) = 1000

\* C3 (as claimed): every stored execution has duration = end_time - start_time
\* and duration >= 0.
C3_DurationIsDerived ==
    \A i \in 1..Len(workflow_executions) :
        /\ workflow_executions[i].duration =
               workflow_executions[i].end_time - workflow_executions[i].start_time
        /\ workflow_executions[i].duration >= 0

\* the "type" member of a JSON object, or "unknown" when it has none
ExpectedSource(body) ==
    LET types == {p[2] : p \in {q \in body.fields : q[1] = "type"}}
    IN  IF types = {} THEN "unknown" ELSE CHOOSE t \in types : TRUE

\* the step appends exactly the event e to system_events (oldest evicted at 500)
AppendsExactly(e) ==
    system_events' = Suffix(Append(system_events, e),
                            Min(Len(system_events) + 1, 500))

\* C4: a POST /api/webhook with a JSON object body appends exactly one event,
\* of type webhook_received, whose source is the body's type member or
\* "unknown" when it has none, and answers {success: true}.
C4_WebhookObjectAppendsOneEvent ==
    [][(resp'.op = "webhook" /\ resp'.request.kind = "object") =>
          LET e == system_events'[Len(system_events')]
          IN  /\ Len(system_events') >= 1
              /\ AppendsExactly(e)
              /\ e.type = "webhook_received"
              /\ e.source = ExpectedSource(resp'.request)
              /\ resp'.status = 200
              /\ resp'.body = Dict({<<"success", "true">>})]_vars

\* C4 witness: a webhook without a type member was accepted into a full log.
C4_Witness ==
    /\ resp.op = "webhook" /\ resp.request = BodyUntyped /\ resp.status = 200
    /\ Len(hist) = 501
    /\ system_events[500].source = "unknown"

\* C5: a POST /api/webhook whose body cannot be parsed leaves system_events,
\* workflow_executions and integration_metrics exactly as they were.
C5_UnparsableWebhookLeavesStore ==
    [][(resp'.op = "webhook" /\ resp'.request.kind = "unparsable") =>
          /\ system_events' = system_events
          /\ workflow_executions' = workflow_executions
          /\ integration_metrics' = integration_metrics]_vars

\* C5 witness: an unparsable webhook was answered while the log was full.
C5_Witness ==
    /\ resp.op = "webhook" /\ resp.request.kind = "unparsable"
    /\ Len(system_events) = 500

\* C6 (as claimed): an unparsable webhook body is answered with a 4xx status.
C6_UnparsableIsClientError ==
    (resp.op = "webhook" /\ resp.request.kind = "unparsable") =>
        resp.status \in 400..499

\* C7 (as claimed): a webhook body that parses but is not an object is
\* accepted, and one webhook_received event with source unknown is appended.
C7_NonObjectIsAccepted ==
    (resp.op = "webhook" /\ resp.request.kind \notin {"unparsable", "object"}) =>
        /\ resp.status = 200
        /\ Len(system_events) >= 1
        /\ system_events[Len(system_events)].type = "webhook_received"
        /\ system_events[Len(system_events)].source = "unknown"

\* number of events of type workflow_execution ever appended
WorkflowEventsAppended ==
    Cardinality({i \in 1..Len(hist) : hist[i].type = "workflow_execution"})

\* number of events ever appended by add_workflow_execution
EventsAppendedByWorkflow ==
    Cardinality({i \in 1..Len(origin) : origin[i] = "workflow"})

\* C8 (as claimed): the number of workflow_execution events ever appended
\* equals the number of executions ever appended.
C8_WorkflowEventCount ==
    WorkflowEventsAppended = Len(whist)

\* C8 (amended): each add_workflow_execution call appends exactly one event,
\* of type workflow_execution, carrying the execution's workflow_id, duration
\* and status; the number of events appended by add_workflow_execution equals
\* the number of executions appended, and the number of workflow_execution
\* events is at least that (add_system_event can append more of that type).
C8_WorkflowEventPerExecution ==
    [][/\ Len(whist') = Len(whist) + 1 =>
            LET e == system_events'[Len(system_events')]
                x == whist'[Len(whist')]
            IN  /\ Len(system_events') >= 1
                /\ AppendsExactly(e)
                /\ e.type = "workflow_execution"
                /\ e.data.kind = "object"
                /\ e.data.fields = {<<"workflow_id", x.workflow_id>>,
                                    <<"duration", x.duration>>,
                                    <<"status", x.status>>}
       /\ EventsAppendedByWorkflow' = Len(whist')
       /\ WorkflowEventsAppended' >= Len(whist')]_vars

\* C8 witness: an execution was recorded after add_system_event had itself
\* appended an event of type workflow_execution.
C8_Witness ==
    /\ Len(whist) >= 1
    /\ origin[Len(origin)] = "workflow"
    /\ \E i \in 1..Len(hist) : origin[i] = "event" /\ hist[i].type = "workflow_execution"
    /\ WorkflowEventsAppended > Len(whist)

\* C9: GET /api/workflows returns the last min(n, 50) stored executions and
\* GET /api/events the last min(n, 100) stored events, oldest first; after
\* executions 1..1001 GET /api/workflows returns 952..1001 ascending.
C9_ReadsReturnMostRecent ==
    /\ resp.op = "workflows" =>
          LET n == Len(workflow_executions)
              k == Min(n, 50)
          IN  /\ resp.status = 200
              /\ Len(resp.body) = k
              /\ \A i \in 1..k :
                    LET x == workflow_executions[n - k + i]
                        y == resp.body[i]
                    IN  /\ y.workflow_id = x.workflow_id
                        /\ y.workflow_id = Len(whist) - k + i
                        /\ y.workflow_name = x.workflow_name
                        /\ y.status = x.status
                        /\ y.duration = x.duration
                        /\ y.start_time = isoformat(x.start_time)
                        /\ y.end_time = isoformat(x.end_time)
                        /\ y.input_data = x.input_data
                        /\ y.output_data = x.output_data
                        /\ y.error_message = x.error_message
              /\ Len(whist) = 1001 =>
                    [i \in 1..k |-> resp.body[i].workflow_id] = [i \in 1..50 |-> 951 + i]
    /\ resp.op = "events" =>
          /\ resp.status = 200
          /\ resp.body = Suffix(system_events, Min(Len(system_events), 100))

\* C9 witness: GET /api/workflows answered after executions 1..1001.
C9_Witness ==
    /\ resp.op = "workflows"
    /\ Len(whist) = 1001
    /\ resp.body[1].workflow_id = 952
    /\ resp.body[50].workflow_id = 1001

\* the registry keys whose status is in the given set
WithStatus(registry, statuses) ==
    {s \in DOMAIN registry : registry[s].status \in statuses}

\* C10: the status report gives total_integrations = number of registry
\* entries, connected_integrations = number of entries whose status is
\* exactly connected (error, disconnected and unknown are not counted), and
\* in the dashboard workflow_executions / system_events = the lengths of the
\* two logs.
C10_StatusCounts ==
    /\ resp.op = "status" =>
          /\ resp.body.total_integrations = Cardinality(DOMAIN integration_metrics)
          /\ resp.body.connected_integrations =
                 Cardinality(WithStatus(integration_metrics, {"connected"}))
          /\ resp.body.connected_integrations + Cardinality(
                 WithStatus(integration_metrics, {"error", "disconnected", "unknown"}))
               = resp.body.total_integrations
          /\ resp.body.workflow_executions = Len(workflow_executions)
          /\ resp.body.system_events = Len(system_events)
    /\ resp.op = "hub_status" =>
          /\ resp.body.total_integrations = Cardinality(DOMAIN integrations)
          /\ resp.body.connected_integrations =
                 Cardinality(WithStatus(integrations, {"connected"}))
          /\ resp.body.connected_integrations + Cardinality(
                 WithStatus(integrations, {"error", "disconnected", "unknown"}))
               = resp.body.total_integrations

\* C10 witness: the hub reports on a full registry in which github is in
\* error and is not counted among the connected ones.
C10_Witness ==
    /\ resp.op = "hub_status"
    /\ DOMAIN integrations = default_integrations
    /\ integrations["github"].status = "error"
    /\ resp.body.total_integrations = 6
    /\ resp.body.connected_integrations = 5


-----------------------------------------------------------------------------
(* Concurrency (SpecConc) *)

\* C11: with webhook handlers, producers and readers interleaved at every
\* await, each append to system_events and the trim that follows it are one
\* step: a step that changes the log appends exactly one event and evicts
\* only the oldest, so the log is the last min(n, 500) events appended and
\* never holds more than 500.
C11_AppendAndCapAtomic ==
    [][(~Warming /\ system_events' # system_events) =>
          /\ Len(hist') = Len(hist) + 1
          /\ system_events' = SliceLast(Append(system_events, hist'[Len(hist')]), MAX_EVENTS)
          /\ Len(system_events') <= MAX_EVENTS
          /\ system_events' = Suffix(hist', Min(Len(hist'), MAX_EVENTS))]_vars

\* C11 witness: a webhook was stored, evicting the oldest event, while another
\* webhook handler was suspended.
C11_Witness ==
    /\ Len(hist) > MAX_EVENTS
    /\ origin[Len(origin)] = "webhook"
    /\ resp.op = "webhook" /\ resp.status = 200
    /\ InFlight > 0

\* C12: GET /api/events answered while webhook handlers are suspended and
\* producers append returns the last min(n, 100) events of the log as it is
\* at that step, and leaves the log alone.
C12_EventsReadIsASnapshot ==
    [][(resp'.op = "events" /\ resp.op # "events") =>
          /\ resp'.status = 200
          /\ resp'.body = Suffix(hist, Min(Len(hist), EVENTS_LIMIT))
          /\ resp'.body = Suffix(system_events, Min(Len(system_events), EVENTS_LIMIT))
          /\ system_events' = system_events
          /\ hist' = hist]_vars

\* C12 witness: a read of a log longer than 100, after appends, with a webhook
\* handler suspended.
C12_Witness ==
    /\ resp.op = "events"
    /\ Len(resp.body) = EVENTS_LIMIT
    /\ Len(system_events) > EVENTS_LIMIT
    /\ ops > 0
    /\ InFlight > 0


-----------------------------------------------------------------------------
(* initialize() of the hub and GET /api/status of the dashboard under failing
   collaborators (Spec) *)

Failures == {"http_error", "network_error"}

\* initialize() has run all its steps
Initialized == program = "hub" /\ hpc \in {"health_check", "running"}

\* C15: whichever of the Shared Context Server, GitHub and n8n raise or
\* answer outside 2xx during initialize(), initialize() does not raise, the
\* registry then has all six service keys, every status is connected,
\* disconnected or error, and a service is in error exactly when its own
\* check failed.
C15_InitializeIsolatesFailures ==
    program = "hub" =>
        /\ hpc # "failed"
        /\ Initialized =>
              /\ DOMAIN integrations = hub_integrations
              /\ \A k \in hub_integrations :
                    integrations[k].status \in {"connected", "disconnected", "error"}
        /\ \A k \in DOMAIN integrations :
              integrations[k].status = "error" <=> answered[k] \in Failures

\* C15 witness: initialize() completed although the checks of all three
\* collaborators failed; the other three services are not in error.
C15_Witness ==
    /\ program = "hub" /\ hpc = "running"
    /\ answered["shared-context-server"] = "network_error"
    /\ answered["github"] = "http_error"
    /\ answered["n8n"] = "network_error"
    /\ WithStatus(integrations, {"error"}) = {"shared-context-server", "github", "n8n"}
    /\ DOMAIN integrations = hub_integrations

\* the external APIs the environment configures
Configured(e) ==
    \/ e["SLACK_BOT_TOKEN"]
    \/ (e["JIRA_API_TOKEN"] /\ e["JIRA_URL"])
    \/ e["SALESFORCE_CLIENT_ID"]

\* C16: a service whose credentials are absent is recorded disconnected:
\* microsoft365 without tenant or client id, github without token, notion
\* without token or database id, external_apis when none of Slack, Jira
\* (token and URL) and Salesforce is configured; external_apis is connected
\* exactly when at least one of them is.
C16_MissingCredentialsDisconnected ==
    program = "hub" =>
        /\ ("microsoft365" \in DOMAIN integrations
               /\ ~(env["MS365_TENANT_ID"] /\ env["MS365_CLIENT_ID"])) =>
              integrations["microsoft365"].status = "disconnected"
        /\ ("github" \in DOMAIN integrations /\ ~env["GITHUB_TOKEN"]) =>
              integrations["github"].status = "disconnected"
        /\ ("notion" \in DOMAIN integrations
               /\ ~(env["NOTION_TOKEN"] /\ env["NOTION_DATABASE_ID"])) =>
              integrations["notion"].status = "disconnected"
        /\ "external_apis" \in DOMAIN integrations =>
              /\ Configured(env) <=> integrations["external_apis"].status = "connected"
              /\ ~Configured(env) <=> integrations["external_apis"].status = "disconnected"

\* C16 witness: every credential pair is half set (tenant id without client
\* id, Notion token without database id, Jira token without URL), github has
\* no token: all four services are disconnected.
C16_Witness ==
    /\ program = "hub" /\ hpc = "running"
    /\ env["MS365_TENANT_ID"] /\ ~env["MS365_CLIENT_ID"]
    /\ env["NOTION_TOKEN"] /\ ~env["NOTION_DATABASE_ID"]
    /\ env["JIRA_API_TOKEN"] /\ ~env["JIRA_URL"]
    /\ ~env["GITHUB_TOKEN"]
    /\ WithStatus(integrations, {"disconnected"}) =
           {"microsoft365", "github", "notion", "external_apis"}

\* C17: GET /api/status answers 200 with top-level status healthy whatever
\* the Shared Context Server and n8n answer; a failed call shows only as
\* status error in its own sub-object (integration_health, n8n_status).
C17_StatusHidesCollaboratorFailure ==
    resp.op = "status" =>
        /\ resp.status = 200
        /\ resp.body.status = "healthy"
        /\ (polled.scs \in Failures) =>
              dict_get(resp.body.integration_health, "status", "None") = "error"
        /\ (polled.n8n \in Failures) <=>
              dict_get(resp.body.n8n_status, "status", "None") = "error"

\* C17 witness: a status report made while both collaborators fail.
C17_Witness ==
    /\ resp.op = "status"
    /\ resp.status = 200
    /\ polled.scs = "network_error"
    /\ polled.n8n = "http_error"
    /\ dict_get(resp.body.integration_health, "status", "None") = "error"

-----------------------------------------------------------------------------
(* main() from start to return (SpecMain) *)

\* the values _initialize_metrics gives a service
Seeded(metric) ==
    /\ metric.status = "unknown"
    /\ metric.response_time = 0
    /\ metric.total_requests = 0
    /\ metric.error_count = 0
    /\ metric.success_rate = 100
    /\ metric.uptime_percentage = 100

\* C13: before the dashboard accepts its first request the registry holds the
\* six default services, each with status unknown, counters zero and
\* success_rate and uptime 100; from then on it holds exactly one record per
\* service, under that service's name, and GET /api/metrics never returns an
\* empty registry.
C13_RegistrySeededBeforeServing ==
    program = "dashboard" =>
        /\ (dpc = "constructed") => resp.op = "none"
        /\ (dpc # "constructed") =>
              /\ DOMAIN integration_metrics = default_integrations
              /\ \A s \in default_integrations : integration_metrics[s].service = s
        /\ (dpc \in {"seeded", "serving"} /\ cycles = 0) =>
              \A s \in DOMAIN integration_metrics : Seeded(integration_metrics[s])
        /\ (resp.op = "metrics") =>
              /\ resp.status = 200
              /\ DOMAIN resp.body = default_integrations
              /\ \A s \in default_integrations : resp.body[s].service = s

\* C13 witness: GET /api/metrics answered after a refresh iteration.
C13_Witness ==
    /\ resp.op = "metrics"
    /\ dpc = "serving"
    /\ cycles > 0
    /\ DOMAIN resp.body = default_integrations

\* C14: after a refresh cycle every polled collaborator's status is
\* `connected` if it answered during the cycle and `error` if it was
\* unreachable or answered outside 2xx.
C14_RefreshRepollsCollaborators ==
    (program = "hub" /\ hpc = "running" /\ cycles > 0) =>
        \A c \in Polled :
            integrations[c].status = IF collab[c] = "ok" THEN "connected" ELSE "error"

\* C18: once main() has returned, by whichever path, the client session it
\* opened is closed.
C18_SessionClosedOnExit ==
    (dpc = "exited" \/ hpc = "exited") => session # "open"

\* C18 witness: the dashboard's main() returned after an interrupt in its
\* loop, the session closed.
C18_Witness ==
    /\ program = "dashboard"
    /\ dpc = "exited"
    /\ cycles > 0
    /\ session = "closed"

\* C19: every step leaves each metric with success_rate equal to
\* 100 * (total_requests - error_count) / total_requests when total_requests
\* is positive, and otherwise with the success_rate it had or with 100.
C19_SuccessRateFromCounters ==
    [][\A s \in DOMAIN integration_metrics' :
          LET m == integration_metrics'[s]
          IN  IF m.total_requests > 0
              THEN m.success_rate * m.total_requests =
                       100 * (m.total_requests - m.error_count)
              ELSE \/ m.success_rate = 100
                   \/ /\ s \in DOMAIN integration_metrics
                      /\ m.success_rate = integration_metrics[s].success_rate]_vars

\* C20: after any number of jitter iterations every metric has
\* response_time >= 0, success_rate and uptime within [0, 100] and
\* 0 <= error_count <= total_requests.
C20_MetricsStayInRange ==
    program = "dashboard" =>
        \A s \in DOMAIN integration_metrics :
            LET m == integration_metrics[s]
            IN  /\ m.response_time >= 0
                /\ 0 <= m.success_rate /\ m.success_rate <= 100
                /\ 0 <= m.uptime_percentage /\ m.uptime_percentage <= 100
                /\ 0 <= m.error_count /\ m.error_count <= m.total_requests

\* C20 witness: after two iterations, one metric was pushed up against the
\* bound of 100 and another moved below it.
C20_Witness ==
    /\ program = "dashboard"
    /\ cycles >= 2
    /\ \E s \in DOMAIN integration_metrics :
          /\ integration_metrics[s].success_rate = 100
          /\ integration_metrics[s].response_time > 10
    /\ \E s \in DOMAIN integration_metrics : integration_metrics[s].success_rate < 100


-----------------------------------------------------------------------------
(* The hub with a hanging collaborator (SpecHub) *)

\* the statuses of the given services are recorded
Recorded(services) == \A k \in services : k \in DOMAIN integrations

\* C21: when one collaborator's request hangs and never completes, the checks
\* of the other collaborators still complete and their statuses are recorded.
C21_HangDoesNotBlockOthers ==
    \A c \in Collaborators :
        (program = "hub" /\ hung = {c}) ~> Recorded(Collaborators \ {c})


-----------------------------------------------------------------------------
(* The dashboard's requests, good and bad (SpecServe) *)

ReadOps == {"status", "metrics", "workflows", "events", "health"}

\* an execution or event json.dumps rejects is within the window served
Unreadable(log, limit, members) ==
    \E i \in 1..Len(log) :
        /\ i > Len(log) - limit
        /\ \E m \in members : ~Serialisable(log[i][m])

HasError(body) == \E p \in body.fields : p[1] = "error"

\* C22: a step that answers GET /api/status, /api/metrics, /api/workflows,
\* /api/events or /health, with 200 or with 500, leaves integration_metrics,
\* workflow_executions and system_events as they were.
C22_ReadsLeaveStore ==
    [][resp'.op \in ReadOps =>
          /\ integration_metrics' = integration_metrics
          /\ workflow_executions' = workflow_executions
          /\ system_events' = system_events]_vars

\* C22 witness: GET /api/workflows answered 500 on a store that holds
\* executions and events.
C22_Witness ==
    /\ resp.op = "workflows"
    /\ resp.status = 500
    /\ Len(workflow_executions) > 0
    /\ Len(system_events) > 0

\* C23: a step that answers POST /api/webhook, whatever the payload, leaves
\* integration_metrics and workflow_executions as they were, records no
\* workflow run and makes no outbound call.
C23_WebhookOnlyLogs ==
    [][resp'.op = "webhook" =>
          /\ integration_metrics' = integration_metrics
          /\ workflow_executions' = workflow_executions
          /\ whist' = whist
          /\ polled' = polled
          /\ session' = session]_vars

\* C23 witness: a webhook was stored next to an execution recorded earlier, in
\* a dashboard that has made no outbound call.
C23_Witness ==
    /\ resp.op = "webhook" /\ resp.status = 200
    /\ origin[Len(origin)] = "webhook"
    /\ Len(workflow_executions) > 0
    /\ polled.scs = "none" /\ polled.n8n = "none"

\* C24: when building the response raises (an execution or event that cannot
\* be serialised, a webhook body that is not a JSON object) the handler
\* answers 500 with an `error` member; every 500 leaves the store intact and
\* the dashboard serving.
C24_FaultsAnswered500 ==
    [][/\ (resp'.op = "workflows"
             /\ Unreadable(workflow_executions, WORKFLOWS_LIMIT, {"input_data", "output_data"}))
            => resp'.status = 500
       /\ (resp'.op = "events" /\ Unreadable(system_events, EVENTS_LIMIT, {"data"}))
            => resp'.status = 500
       /\ (resp'.op = "webhook" /\ resp'.request.kind # "object")
            => resp'.status = 500
       /\ (resp'.status = 500) =>
            /\ HasError(resp'.body)
            /\ integration_metrics' = integration_metrics
            /\ workflow_executions' = workflow_executions
            /\ system_events' = system_events
            /\ dpc' = "serving"
            /\ session' = "open"
       /\ (faulted' /\ dpc = "serving") => dpc' \in {"serving", "interrupted"}]_vars

\* C24 witness: after a request was answered 500, GET /api/events is answered
\* 200 from a store that still holds the execution GET /api/workflows cannot
\* serialise.
C24_Witness ==
    /\ faulted
    /\ resp.op = "events" /\ resp.status = 200
    /\ Len(resp.body) > 0
    /\ Unreadable(workflow_executions, WORKFLOWS_LIMIT, {"input_data", "output_data"})

\* C25: in the dashboard every metric keeps status unknown, total_requests 0,
\* error_count 0 and uptime 100 from seeding on, through webhooks, recorded
\* events and executions, reads and loop iterations, and GET /api/status
\* reports connected_integrations = 0.
C25_StatusStaysUnknown ==
    program = "dashboard" =>
        /\ \A s \in DOMAIN integration_metrics :
              /\ integration_metrics[s].status = "unknown"
              /\ integration_metrics[s].total_requests = 0
              /\ integration_metrics[s].error_count = 0
              /\ integration_metrics[s].uptime_percentage = 100
        /\ (resp.op = "status") => resp.body.connected_integrations = 0

\* C25 witness: a status report after a loop iteration and a recorded
\* execution, with all six services registered.
C25_Witness ==
    /\ resp.op = "status"
    /\ cycles > 0
    /\ Len(workflow_executions) > 0
    /\ resp.body.total_integrations = 6
    /\ resp.body.connected_integrations = 0
    /\ \E s \in DOMAIN integration_metrics : integration_metrics[s].success_rate < 100

-----------------------------------------------------------------------------
(* The email workflow of the hub (SpecHub) *)

\* the workflow's steps, in the order the code lists them
WorkflowSteps == <<"analyse", "github", "notion", "notify">>

\* the position of a step in that order
StepRank(step) == CHOOSE i \in 1..Len(WorkflowSteps) : WorkflowSteps[i] = step

\* the steps are among the workflow's steps and in its order
InWorkflowOrder(steps) ==
    /\ \A i \in 1..Len(steps) : \E j \in 1..Len(WorkflowSteps) : steps[i] = WorkflowSteps[j]
    /\ \A i \in 1..(Len(steps) - 1) : StepRank(steps[i]) < StepRank(steps[i + 1])

\* C26: after initialize(), process_email_to_github_workflow returns a result
\* (it does not raise), with success true exactly when github and notion are
\* both connected; otherwise the result is {success: false, error}, the error
\* being the read of a result no step produced; the steps that run are in the
\* order analyse, GitHub issue, Notion page, notify Teams.
C26_EmailWorkflowOutcome ==
    (program = "hub" /\ resp.op = "email_workflow") =>
        LET github == integrations["github"].status = "connected"
            notion == integrations["notion"].status = "connected"
        IN  /\ hpc = "running"
            /\ resp.body.success <=> (github /\ notion)
            /\ ~(github /\ notion) =>
                  /\ DOMAIN resp.body = {"success", "error", "steps"}
                  /\ resp.body.error \in {"UnboundLocalError: github_issue",
                                          "UnboundLocalError: notion_page"}
                  /\ "notify" \notin {resp.body.steps[i] : i \in 1..Len(resp.body.steps)}
            /\ (github /\ notion) => resp.body.steps = WorkflowSteps
            /\ InWorkflowOrder(resp.body.steps)
            /\ resp.body.steps[1] = "analyse"
            /\ github <=> \E i \in 1..Len(resp.body.steps) : resp.body.steps[i] = "github"

\* C26 witness: the workflow ran with github connected and notion not: the
\* issue step ran, the Notion step did not, and the result is a failure.
C26_Witness ==
    /\ program = "hub" /\ resp.op = "email_workflow"
    /\ integrations["github"].status = "connected"
    /\ integrations["notion"].status = "disconnected"
    /\ resp.body.success = FALSE
    /\ resp.body.error = "UnboundLocalError: notion_page"
    /\ resp.body.steps = <<"analyse", "github">>

-----------------------------------------------------------------------------
(* Session creation during initialize() (Spec) *)

\* the credentials of microsoft365 or notion are present
CredentialsPresent(e, k) ==
    IF k = "microsoft365" THEN e["MS365_TENANT_ID"] /\ e["MS365_CLIENT_ID"]
    ELSE e["NOTION_TOKEN"] /\ e["NOTION_DATABASE_ID"]

\* C27: microsoft365 and notion are recorded connected whenever their
\* credentials are present, however the request for a Shared Context Server
\* session ended: a failed request gives an empty result without raising, the
\* service is connected (never error) and its session_id is None; a request
\* that succeeded gives the session's id.
C27_SessionFailureKeepsConnected ==
    program = "hub" =>
        /\ hpc # "failed"
        /\ \A k \in {"microsoft365", "notion"} :
              (k \in DOMAIN integrations /\ CredentialsPresent(env, k)) =>
                  /\ session_answer[k] \in SessionOutcomes
                  /\ integrations[k].status = "connected"
                  /\ dict_get(integrations[k].metrics, "session_id", "missing") =
                         IF session_answer[k] = "ok" THEN "sid" ELSE "None"

\* C27 witness: initialize() completed with the Shared Context Server
\* unreachable throughout: its own check is in error, both session requests
\* failed, and microsoft365 and notion are connected without a session id.
C27_Witness ==
    /\ program = "hub" /\ hpc = "running"
    /\ integrations["shared-context-server"].status = "error"
    /\ session_answer["microsoft365"] = "network_error"
    /\ session_answer["notion"] = "network_error"
    /\ integrations["microsoft365"].status = "connected"
    /\ integrations["notion"].status = "connected"
    /\ dict_get(integrations["microsoft365"].metrics, "session_id", "missing") = "None"
    /\ dict_get(integrations["notion"].metrics, "session_id", "missing") = "None"

=============================================================================
